---------------------------- MODULE Spec2Model ----------------------------
(***************************************************************************)
(* Model of the uri crate (src/src/lib.rs): the URI_PATTERN regular        *)
(* expression with the leftmost-first semantics of the regex engine, the   *)
(* builder Uri::new, and the serializer UriWriter behind fmt::Display.     *)
(*                                                                         *)
(* A string is a sequence of characters; a character is a one-character    *)
(* TLA+ string.  Option<T> is a sequence of length at most one:            *)
(* None is << >> and Some(x) is <<x>>.                                     *)
(***************************************************************************)
EXTENDS Integers, Sequences, FiniteSets, TLC

None == << >>
Some(x) == <<x>>
IsSome(o) == o # None
Unwrap(o) == o[1]

(***************************************************************************)
(* Character classes of URI_PATTERN.                                       *)
(***************************************************************************)
Lower == {"a","b","c","d","e","f","g","h","i","j","k","l","m",
          "n","o","p","q","r","s","t","u","v","w","x","y","z"}
Upper == {"A","B","C","D","E","F","G","H","I","J","K","L","M",
          "N","O","P","Q","R","S","T","U","V","W","X","Y","Z"}
AsciiDigit == {"0","1","2","3","4","5","6","7","8","9"}

\* A decimal digit outside ASCII (ARABIC-INDIC DIGIT THREE, U+0663): the
\* engine's \d is the Unicode class Nd, so it matches this character too.
ArabicThree == "U+0663"

\* A first-character class that also admits a digit.
SchemeFirstOrDigit == Lower \cup Upper \cup AsciiDigit

\* [a-zA-Z]
SchemeFirst == Lower \cup Upper
\* [a-zA-Z0-9+.-]
SchemeRest == Lower \cup Upper \cup AsciiDigit \cup {"+", ".", "-"}
\* [0-9\.A-Za-z-?]
HostClass == AsciiDigit \cup {"."} \cup Upper \cup Lower \cup {"-", "?"}
\* \d
DigitClass == AsciiDigit \cup {ArabicThree}
\* .   (any character but the line feed)
Dot(c) == c # "\n"
\* [^?#]
PathClass(c) == c \notin {"?", "#"}
\* [^#]
QueryClass(c) == c # "#"

Max(S) == CHOOSE x \in S : \A y \in S : y <= x
Min(S) == CHOOSE x \in S : \A y \in S : x <= y

(***************************************************************************)
(* URI_PATTERN, element by element, last element first.  x_ok(s, ...) is   *)
(* the set of positions i such that the pattern from element x on matches  *)
(* s[i..Len(s)] up to $, computed from the set of the element after x.     *)
(* x_ends is the set of positions at which element x, started at i, may    *)
(* end so that the rest of the pattern still matches.                      *)
(***************************************************************************)
Positions(s) == 1..(Len(s) + 1)
At(s, i) == IF i \in 1..Len(s) THEN s[i] ELSE "EOT"

\* (?:#(?P<fragment>.*))?$
fragment_ok(s) ==
  {i \in Positions(s) : \/ At(s, i) = "#" /\ \A k \in (i+1)..Len(s) : Dot(s[k])
                        \/ i = Len(s) + 1}

\* (?:\?(?P<query>[^#]*))?
query_ends(s, i, fOK) ==
  IF At(s, i) # "?" THEN {}
  ELSE {e \in i..Len(s) : /\ \A k \in (i+1)..e : QueryClass(s[k])
                          /\ (e + 1) \in fOK}

query_ok(s, fOK) ==
  {i \in Positions(s) : query_ends(s, i, fOK) # {} \/ i \in fOK}

\* (?P<path>/[^?#]*), p the position of the '/'
path_ends(s, p, qOK) ==
  IF At(s, p) # "/" THEN {}
  ELSE {e \in p..Len(s) : /\ \A k \in (p+1)..e : PathClass(s[k])
                          /\ (e + 1) \in qOK}

\* (:?(?P<path>/[^?#]*))? : where the path starts, 0 when the group is skipped
path_start(s, i, qOK) ==
  IF At(s, i) = ":" /\ path_ends(s, i + 1, qOK) # {} THEN i + 1
  ELSE IF path_ends(s, i, qOK) # {} THEN i
  ELSE 0

path_ok(s, qOK) ==
  {i \in Positions(s) : path_start(s, i, qOK) # 0 \/ i \in qOK}

\* (?::(?P<port>\d+))?
port_ends(s, i, aOK) ==
  IF At(s, i) # ":" THEN {}
  ELSE {e \in (i+1)..Len(s) : /\ \A k \in (i+1)..e : s[k] \in DigitClass
                              /\ (e + 1) \in aOK}

port_ok(s, aOK) ==
  {i \in Positions(s) : port_ends(s, i, aOK) # {} \/ i \in aOK}

\* The host group with * for +: the host may be empty.
host_ends_or_empty(s, i, oOK) ==
  {e \in (i-1)..Len(s) : /\ \A k \in i..e : s[k] \in HostClass
                         /\ (e + 1) \in oOK}

\* (?P<host>[0-9\.A-Za-z-?]+)
host_ends(s, i, oOK) ==
  {e \in i..Len(s) : /\ \A k \in i..e : s[k] \in HostClass
                     /\ (e + 1) \in oOK}

host_ok(s, oOK) == {i \in Positions(s) : host_ends(s, i, oOK) # {}}

\* @?
at_taken(s, i, hOK) == At(s, i) = "@" /\ (i + 1) \in hOK

at_ok(s, hOK) == {i \in Positions(s) : at_taken(s, i, hOK) \/ i \in hOK}

\* (:(?P<password>.*?))?
password_ends(s, i, tOK) ==
  IF At(s, i) # ":" THEN {}
  ELSE {e \in i..Len(s) : /\ \A k \in (i+1)..e : Dot(s[k])
                          /\ (e + 1) \in tOK}

password_ok(s, tOK) ==
  {i \in Positions(s) : password_ends(s, i, tOK) # {} \/ i \in tOK}

\* (?P<username>.*?)?
username_ends(s, i, pOK) ==
  {e \in (i-1)..Len(s) : /\ \A k \in i..e : Dot(s[k])
                         /\ (e + 1) \in pOK}

username_ok(s, pOK) ==
  {i \in Positions(s) : username_ends(s, i, pOK) # {} \/ i \in pOK}

\* /{0,3}
slash_counts(s, i, uOK) ==
  {c \in 0..3 : /\ i + c <= Len(s) + 1
                /\ \A k \in i..(i+c-1) : s[k] = "/"
                /\ (i + c) \in uOK}

\* ^(?P<scheme>[a-zA-Z][a-zA-Z0-9+.-]*):
scheme_ends(s, uOK) ==
  {e \in 1..(Len(s) - 1) : /\ s[1] \in SchemeFirst
                           /\ \A k \in 2..e : s[k] \in SchemeRest
                           /\ s[e+1] = ":"
                           /\ slash_counts(s, e + 2, uOK) # {}}

(***************************************************************************)
(* The position sets of all elements for the text s.                       *)
(***************************************************************************)
Tables(s) ==
  LET fOK == fragment_ok(s)
      qOK == query_ok(s, fOK)
      aOK == path_ok(s, qOK)
      oOK == port_ok(s, aOK)
      hOK == host_ok(s, oOK)
      tOK == at_ok(s, hOK)
      pOK == password_ok(s, tOK)
      uOK == username_ok(s, pOK)
  IN  [fragment |-> fOK, query |-> qOK, path |-> aOK, port |-> oOK,
       host |-> hOK, at |-> tOK, password |-> pOK, username |-> uOK]

(***************************************************************************)
(* The choice the engine makes at each element, first element first, in    *)
(* its priority order: a greedy operator takes the longest repetition that *)
(* lets the rest of the pattern match, a lazy one the shortest, and an     *)
(* optional group is taken whenever the rest can match with it.            *)
(* take_x(s, i, T) is the record of the groups from element x on, an       *)
(* Option of the captured substring each, for element x started at i.      *)
(***************************************************************************)
take_fragment(s, i) ==
  [fragment |-> IF At(s, i) = "#" THEN Some(SubSeq(s, i + 1, Len(s))) ELSE None]

take_query(s, i, T) ==
  LET ends == query_ends(s, i, T.fragment)
      e == IF ends # {} THEN Max(ends) ELSE i - 1
  IN  [query |-> IF e >= i THEN Some(SubSeq(s, i + 1, e)) ELSE None]
      @@ take_fragment(s, e + 1)

take_path(s, i, T) ==
  LET p == path_start(s, i, T.query)
      e == IF p # 0 THEN Max(path_ends(s, p, T.query)) ELSE i - 1
  IN  [path |-> IF p # 0 THEN Some(SubSeq(s, p, e)) ELSE None]
      @@ take_query(s, e + 1, T)

take_port(s, i, T) ==
  LET ends == port_ends(s, i, T.path)
      e == IF ends # {} THEN Max(ends) ELSE i - 1
  IN  [port |-> IF e >= i THEN Some(SubSeq(s, i + 1, e)) ELSE None]
      @@ take_path(s, e + 1, T)

take_host(s, i, T) ==
  LET e == Max(host_ends(s, i, T.port))
  IN  [host |-> Some(SubSeq(s, i, e))] @@ take_port(s, e + 1, T)

take_at(s, i, T) ==
  take_host(s, IF at_taken(s, i, T.host) THEN i + 1 ELSE i, T)

take_password(s, i, T) ==
  LET ends == password_ends(s, i, T.at)
      e == IF ends # {} THEN Min(ends) ELSE i - 1
  IN  [password |-> IF e >= i THEN Some(SubSeq(s, i + 1, e)) ELSE None]
      @@ take_at(s, e + 1, T)

take_username(s, i, T) ==
  LET ends == username_ends(s, i, T.password)
      e == IF ends # {} THEN Min(ends) ELSE i - 1
  IN  [username |-> IF ends # {} THEN Some(SubSeq(s, i, e)) ELSE None]
      @@ take_password(s, e + 1, T)

take_slashes(s, i, T) ==
  take_username(s, i + Max(slash_counts(s, i, T.username)), T)

take_scheme(s, T) ==
  LET e == Max(scheme_ends(s, T.username))
  IN  [scheme |-> Some(SubSeq(s, 1, e))] @@ take_slashes(s, e + 2, T)

(***************************************************************************)
(* URI_REGEX.captures: None when the pattern does not match the text, else *)
(* Some of the capture groups of the engine's match.                       *)
(***************************************************************************)
URI_REGEX_captures(s) ==
  LET T == Tables(s)
  IN  IF scheme_ends(s, T.username) = {} THEN None ELSE Some(take_scheme(s, T))

(***************************************************************************)
(* URI_REGEX.is_match: whether the anchored pattern matches at all,        *)
(* computed without captures, as the engine's automaton does: after_x is   *)
(* the set of text positions that can follow element x, given the set R    *)
(* of positions that can follow the element before it.                     *)
(***************************************************************************)
after_scheme(s) ==
  {e + 2 : e \in {e \in 1..(Len(s) - 1) : /\ s[1] \in SchemeFirst
                                          /\ \A k \in 2..e : s[k] \in SchemeRest
                                          /\ s[e+1] = ":"}}

after_slashes(s, R) ==
  {j \in Positions(s) : \E i \in R : /\ j - i \in 0..3
                                     /\ \A k \in i..(j-1) : s[k] = "/"}

after_username(s, R) ==
  {j \in Positions(s) : \E i \in R : i <= j /\ \A k \in i..(j - 1) : Dot(s[k])}

after_password(s, R) ==
  R \cup {j \in Positions(s) : \E i \in R :
            At(s, i) = ":" /\ i < j /\ \A k \in (i + 1)..(j - 1) : Dot(s[k])}

after_at(s, R) == R \cup {i + 1 : i \in {i \in R : At(s, i) = "@"}}

after_host(s, R) ==
  {j \in Positions(s) : \E i \in R : i < j /\ \A k \in i..(j - 1) : s[k] \in HostClass}

after_port(s, R) ==
  R \cup {j \in Positions(s) : \E i \in R :
            At(s, i) = ":" /\ i + 1 < j /\ \A k \in (i + 1)..(j - 1) : s[k] \in DigitClass}

after_path(s, R) ==
  LET starts == R \cup {i + 1 : i \in {i \in R : At(s, i) = ":"}}
  IN  R \cup {j \in Positions(s) : \E i \in starts :
                At(s, i) = "/" /\ i < j /\ \A k \in (i + 1)..(j - 1) : PathClass(s[k])}

after_query(s, R) ==
  R \cup {j \in Positions(s) : \E i \in R :
            At(s, i) = "?" /\ i < j /\ \A k \in (i + 1)..(j - 1) : QueryClass(s[k])}

after_fragment(s, R) ==
  R \cup {j \in Positions(s) : \E i \in R :
            At(s, i) = "#" /\ i < j /\ \A k \in (i + 1)..(j - 1) : Dot(s[k])}

URI_REGEX_is_match(s) ==
  (Len(s) + 1) \in
    after_fragment(s, after_query(s, after_path(s, after_port(s,
      after_host(s, after_at(s, after_password(s, after_username(s,
        after_slashes(s, after_scheme(s))))))))))

\* map_to_string! without the test for the empty string.
map_to_string_keep_empty(x) == x

(***************************************************************************)
(* map_to_string!: an absent group and a group that captured the empty     *)
(* string both become None.                                                *)
(***************************************************************************)
map_to_string(x) ==
  IF x # None
  THEN LET contents == Unwrap(x)
       IN  IF contents = << >> THEN None ELSE Some(contents)
  ELSE None

\* u16::MAX, the largest value str::parse::<u16> returns.
U16_MAX == 65535

\* char::to_digit(10): the value of an ASCII digit; any other character,
\* a decimal digit outside ASCII included, is no digit for str::parse.
to_digit(c) ==
  CASE c = "0" -> Some(0) [] c = "1" -> Some(1) [] c = "2" -> Some(2)
    [] c = "3" -> Some(3) [] c = "4" -> Some(4) [] c = "5" -> Some(5)
    [] c = "6" -> Some(6) [] c = "7" -> Some(7) [] c = "8" -> Some(8)
    [] c = "9" -> Some(9) [] OTHER -> None

\* str::parse::<u16> on the characters still to read, acc the value so far:
\* checked_mul(10) then checked_add(digit), an error on the first overflow
\* or the first character that is no digit.
RECURSIVE parse_u16(_, _)
parse_u16(rest, acc) ==
  IF rest = << >> THEN Some(acc)
  ELSE LET d == to_digit(Head(rest))
       IN  IF d = None THEN None
           ELSE IF acc * 10 > U16_MAX THEN None
           ELSE IF acc * 10 + Unwrap(d) > U16_MAX THEN None
           ELSE parse_u16(Tail(rest), acc * 10 + Unwrap(d))

\* A conversion with wrapping arithmetic in place of the checked one.
RECURSIVE wrapping_u16(_, _)
wrapping_u16(rest, acc) ==
  IF rest = << >> THEN Some(acc)
  ELSE LET d == to_digit(Head(rest))
       IN  IF d = None THEN None
           ELSE wrapping_u16(Tail(rest), (acc * 10 + Unwrap(d)) % (U16_MAX + 1))

map_to_u16_wrapping(value) ==
  IF value = << >> THEN None ELSE wrapping_u16(value, 0)

(***************************************************************************)
(* map_to_u16: Some(parsed value) on Ok, None on any parse error.          *)
(***************************************************************************)
map_to_u16(value) ==
  IF value = << >> THEN None ELSE parse_u16(value, 0)

\* Option::and_then(map_to_u16)
port_of(group) == IF group = None THEN None ELSE map_to_u16(Unwrap(group))

\* is_uri with an unanchored end: some prefix of the text matches.
is_uri_unanchored(uristr) ==
  \E k \in 0..Len(uristr) : URI_REGEX_is_match(SubSeq(uristr, 1, k))

(***************************************************************************)
(* is_uri                                                                  *)
(***************************************************************************)
is_uri(uristr) == URI_REGEX_is_match(uristr)

(***************************************************************************)
(* Uri::new: None unless is_uri; then the fields from the capture groups.  *)
(***************************************************************************)
Uri_new(uristr) ==
  IF ~is_uri(uristr) THEN None
  ELSE LET found == URI_REGEX_captures(uristr)
       IN  IF found = None THEN None
           ELSE LET caps == Unwrap(found)
                IN  IF caps.scheme = None THEN None
                    ELSE Some([scheme   |-> Unwrap(caps.scheme),
                               username |-> map_to_string(caps.username),
                               password |-> map_to_string(caps.password),
                               host     |-> map_to_string(caps.host),
                               port     |-> port_of(caps.port),
                               path     |-> map_to_string(caps.path),
                               query    |-> map_to_string(caps.query),
                               fragment |-> map_to_string(caps.fragment)])

(***************************************************************************)
(* fmt::Display for u16: the decimal numeral, no sign, no leading zero.    *)
(***************************************************************************)
RECURSIVE u16_to_string(_)
u16_to_string(v) ==
  LET digit == <<"0","1","2","3","4","5","6","7","8","9">>[(v % 10) + 1]
  IN  IF v < 10 THEN <<digit>> ELSE u16_to_string(v \div 10) \o <<digit>>

(***************************************************************************)
(* UriWriter.  A write_* operator takes the Uri and the text the formatter *)
(* holds and yields the fmt::Result with the text the formatter then       *)
(* holds; the formatter of to_string writes into a String and never fails. *)
(***************************************************************************)
Ok(f) == [res |-> "Ok", buf |-> f]
Err(f) == [res |-> "Err", buf |-> f]

\* A validity test that accepts every Uri.
is_valid_uri_always(uri) == TRUE

is_valid_uri(uri) == IsSome(uri.host)

write_scheme(uri, f) == Ok(f \o uri.scheme \o <<":", "/", "/">>)

\* write_authority without the '@' after the user-info.
write_authority_no_at(uri, f) ==
  IF IsSome(uri.username)
  THEN LET f1 == f \o Unwrap(uri.username)
       IN  Ok(IF IsSome(uri.password)
              THEN f1 \o <<":">> \o Unwrap(uri.password)
              ELSE f1)
  ELSE Ok(f)

write_authority(uri, f) ==
  IF IsSome(uri.username)
  THEN LET f1 == f \o Unwrap(uri.username)
           f2 == IF IsSome(uri.password)
                 THEN f1 \o <<":">> \o Unwrap(uri.password)
                 ELSE f1
       IN  Ok(f2 \o <<"@">>)
  ELSE Ok(f)

write_host(uri, f) ==
  IF IsSome(uri.host) THEN Ok(f \o Unwrap(uri.host)) ELSE Err(f)

write_port(uri, f) ==
  IF IsSome(uri.port)
  THEN Ok(f \o <<":">> \o u16_to_string(Unwrap(uri.port)))
  ELSE Ok(f)

\* write_path without the default "/".
write_path_no_default(uri, f) ==
  IF IsSome(uri.path) THEN Ok(f \o Unwrap(uri.path)) ELSE Ok(f)

write_path(uri, f) ==
  IF IsSome(uri.path) THEN Ok(f \o Unwrap(uri.path)) ELSE Ok(f \o <<"/">>)

write_query(uri, f) ==
  IF IsSome(uri.query) THEN Ok(f \o <<"?">> \o Unwrap(uri.query)) ELSE Ok(f)

write_fragment(uri, f) ==
  IF IsSome(uri.fragment) THEN Ok(f \o <<"#">> \o Unwrap(uri.fragment)) ELSE Ok(f)

\* try!(first); next : the error of first is returned at once.
write_uri(uri, f) ==
  IF ~is_valid_uri(uri) THEN Err(f)
  ELSE LET r1 == write_scheme(uri, f) IN
       IF r1.res = "Err" THEN r1 ELSE
       LET r2 == write_authority(uri, r1.buf) IN
       IF r2.res = "Err" THEN r2 ELSE
       LET r3 == write_host(uri, r2.buf) IN
       IF r3.res = "Err" THEN r3 ELSE
       LET r4 == write_port(uri, r3.buf) IN
       IF r4.res = "Err" THEN r4 ELSE
       LET r5 == write_path(uri, r4.buf) IN
       IF r5.res = "Err" THEN r5 ELSE
       LET r6 == write_query(uri, r5.buf) IN
       IF r6.res = "Err" THEN r6 ELSE
       write_fragment(uri, r6.buf)

\* impl fmt::Display for Uri
fmt(uri, f) == write_uri(uri, f)

(***************************************************************************)
(* The program: the round trip of test::test_roundtrip_parsing on one      *)
(* input, with the public is_uri asked first.                              *)
(*   uristr    the input text                                              *)
(*   written   the components the input was composed from, when it was     *)
(*             composed from components (None otherwise)                   *)
(*   pc        "start", "checked" (is_uri answered), "parsed" (Uri::new    *)
(*             returned Some), "rejected" (it returned None), "failed"     *)
(*             (fmt returned Err), "reparsed"                              *)
(*   round     1 while the input is handled, 2 once its Uri was written    *)
(*             and the written text is handled                             *)
(*   isuri     the last answer of is_uri                                   *)
(*   caps      the capture groups Uri::new read for the input              *)
(*   original  Uri::new(uristr), or the Uri built as a struct literal      *)
(*   formatter the text fmt wrote; fmtres its fmt::Result, "none" before   *)
(*   roundtrip Uri::new(original.to_string())                              *)
(***************************************************************************)
VARIABLES uristr, written, pc, round, isuri, caps, original,
          formatter, fmtres, roundtrip

vars == <<uristr, written, pc, round, isuri, caps, original,
          formatter, fmtres, roundtrip>>

\* All strings over the characters C of length at most n.
Strings(C, n) == UNION {[1..k -> C] : k \in 0..n}

MaxFree == 4
MaxBody == 5
MaxPortLen == 5

FreeChars == {"a", "1", "+", ":", "/", "@", "?", "#", "%", "\n"}
BodyChars == {"1", ":", "/", "@", "?", "#", "%"}
PortChars == {"0", "3", "5", "6", ArabicThree}

\* Any short text, and any short text after the scheme "a:".
Inputs == Strings(FreeChars, MaxFree)
          \cup {<<"a", ":">> \o b : b \in Strings(BodyChars, MaxBody)}

\* scheme://host:port and what may follow, for every short run of digits.
PortInputs ==
  {<<"a", ":", "/", "/", "h", ":">> \o d \o t :
     d \in Strings(PortChars, MaxPortLen) \ {<< >>},
     t \in {<< >>, <<"/", "p">>, <<"?", "q">>, <<"#">>}}

\* The components of scheme://[username[:password]@]host[:port][/path][?query][#fragment]
ShapeComponents ==
  {w \in [scheme   : {<<"a">>, <<"a", "1", "+">>},
          username : {None, Some(<<"u">>), Some(<<"%", "1">>)},
          password : {None, Some(<<"p">>), Some(<<"1">>)},
          host     : {Some(<<"h">>), Some(<<"1", ".", "h", "-">>)},
          port     : {None, Some(<<"0">>), Some(<<"0", "8", "0">>),
                      Some(<<"6", "5", "5", "3", "5">>)},
          path     : {None, Some(<<"/">>), Some(<<"/", "p", "@", ":">>)},
          query    : {None, Some(<<"q">>), Some(<<"k", "=", "v">>), Some(<<"/", "?">>)},
          fragment : {None, Some(<<"f">>), Some(<<"#", "?">>)}] :
     w.username = None => w.password = None}

Opt(prefix, o) == IF o = None THEN << >> ELSE prefix \o Unwrap(o)

Compose(w) ==
  w.scheme \o <<":", "/", "/">>
  \o (IF w.username = None THEN << >>
      ELSE Unwrap(w.username) \o Opt(<<":">>, w.password) \o <<"@">>)
  \o Unwrap(w.host) \o Opt(<<":">>, w.port) \o Opt(<< >>, w.path)
  \o Opt(<<"?">>, w.query) \o Opt(<<"#">>, w.fragment)

\* Uri values built as struct literals (every field of Uri is pub).
Literals ==
  [scheme   : {<< >>, <<"a">>},
   username : {None, Some(<< >>), Some(<<"u">>)},
   password : {None, Some(<< >>), Some(<<"p">>)},
   host     : {None, Some(<< >>), Some(<<"h">>)},
   port     : {None, Some(0), Some(80), Some(U16_MAX)},
   path     : {None, Some(<< >>), Some(<<"/">>), Some(<<"x">>)},
   query    : {None, Some(<< >>), Some(<<"q">>)},
   fragment : {None, Some(<< >>), Some(<<"f">>)}]

Start(s, w) ==
  /\ uristr = s
  /\ written = w
  /\ pc = "start"
  /\ round = 1
  /\ isuri = None
  /\ caps = None
  /\ original = None
  /\ formatter = << >>
  /\ fmtres = "none"
  /\ roundtrip = None

Init == \E s \in Inputs : Start(s, None)

InitPort == \E s \in PortInputs : Start(s, None)

InitShape == \E w \in ShapeComponents : Start(Compose(w), Some(w))

InitLiteral ==
  \E u \in Literals :
    /\ uristr = << >>
    /\ written = None
    /\ pc = "parsed"
    /\ round = 1
    /\ isuri = None
    /\ caps = None
    /\ original = Some(u)
    /\ formatter = << >>
    /\ fmtres = "none"
    /\ roundtrip = None

\* The text handled in the current round.
Arg == IF round = 1 THEN uristr ELSE formatter

\* is_uri(text)
IsUri ==
  /\ pc = "start"
  /\ isuri' = Some(is_uri(Arg))
  /\ pc' = "checked"
  /\ UNCHANGED <<uristr, written, round, caps, original, formatter, fmtres, roundtrip>>

\* Uri::new(text): the original in round 1, the roundtrip in round 2.
New ==
  /\ pc = "checked"
  /\ LET uri == Uri_new(Arg)
     IN  /\ original' = IF round = 1 THEN uri ELSE original
         /\ roundtrip' = IF round = 2 THEN uri ELSE roundtrip
         /\ caps' = IF round = 1 /\ is_uri(Arg) THEN URI_REGEX_captures(Arg) ELSE caps
         /\ pc' = IF uri = None THEN "rejected"
                  ELSE IF round = 1 THEN "parsed" ELSE "reparsed"
  /\ UNCHANGED <<uristr, written, round, isuri, formatter, fmtres>>

\* Display::fmt of the original into an empty String, as original.to_string()
\* formats it; a text written with Ok is parsed next, an Err ends the run.
Display ==
  /\ pc = "parsed"
  /\ LET r == fmt(Unwrap(original), << >>)
     IN  /\ formatter' = r.buf
         /\ fmtres' = r.res
         /\ pc' = IF r.res = "Ok" THEN "start" ELSE "failed"
         /\ round' = IF r.res = "Ok" THEN 2 ELSE round
  /\ UNCHANGED <<uristr, written, isuri, caps, original, roundtrip>>

Next == IsUri \/ New \/ Display

Spec == Init /\ [][Next]_vars
SpecPort == InitPort /\ [][Next]_vars
SpecShape == InitShape /\ [][Next]_vars
SpecLiteral == InitLiteral /\ [][Next]_vars

(***************************************************************************)
(* Properties.                                                             *)
(***************************************************************************)
\* Uri::new has returned for the input.
NewDone == round = 2 \/ pc \in {"parsed", "rejected", "failed"}

\* The Uri::new result of the current round.
Current == IF round = 1 THEN original ELSE roundtrip

StringFields == {"username", "password", "host", "path", "query", "fragment"}

Chars(str) == {str[i] : i \in 1..Len(str)}

\* The value of a decimal digit and of a decimal numeral, by position.
DigitValue(c) ==
  CASE c = "0" -> 0 [] c = "1" -> 1 [] c = "2" -> 2 [] c = "3" -> 3
    [] c = "4" -> 4 [] c = "5" -> 5 [] c = "6" -> 6 [] c = "7" -> 7
    [] c = "8" -> 8 [] c = "9" -> 9 [] c = ArabicThree -> 3

RECURSIVE DecimalValue(_)
DecimalValue(d) ==
  IF d = << >> THEN 0
  ELSE DecimalValue(SubSeq(d, 1, Len(d) - 1)) * 10 + DigitValue(d[Len(d)])

\* The Uri whose fields are the written components.
Expected(w) ==
  [scheme   |-> w.scheme,
   username |-> w.username,
   password |-> w.password,
   host     |-> w.host,
   port     |-> IF w.port = None THEN None ELSE Some(DecimalValue(Unwrap(w.port))),
   path     |-> w.path,
   query    |-> w.query,
   fragment |-> w.fragment]

\* C1: for an input composed as
\* scheme://[username[:password]@]host[:port][/path][?query][#fragment],
\* Uri::new returns Some(uri) and every field of uri is the written
\* component, None for a component that was not written.
C1_ExactFields ==
  (written # None /\ NewDone) => original = Some(Expected(Unwrap(written)))

\* C2 as claimed: whenever Uri::new(s) succeeds (its Uri then has a host),
\* Uri::new of the serialized Uri succeeds with all eight fields equal.
C2_RoundTrip ==
  (round = 2 /\ pc \in {"reparsed", "rejected"}) => roundtrip = original

\* The parsed Uris for which the round trip is exact.
Faithful(u) ==
  /\ u.path # None
  /\ u.password # None => u.username # None
  /\ u.username # None => Head(Unwrap(u.username)) # "/"

\* C2 as amended: the round trip yields equal fields when the parsed Uri
\* has a path, has a username if it has a password, and has no username
\* that begins with '/'.
C2_RoundTripFaithful ==
  (round = 2 /\ pc \in {"reparsed", "rejected"} /\ Faithful(Unwrap(original)))
    => roundtrip = original

C2_Witness ==
  /\ round = 2 /\ pc = "reparsed"
  /\ Faithful(Unwrap(original))
  /\ Unwrap(original).username # None
  /\ Unwrap(original).query # None
  /\ roundtrip = original

\* C3: serializing a Uri whose host is None returns the error, with
\* nothing written to the output, whatever the other fields hold.
C3_HostlessIsError ==
  (original # None /\ Unwrap(original).host = None /\ pc # "parsed")
    => (fmtres = "Err" /\ formatter = << >> /\ pc = "failed")

C3_Witness ==
  /\ pc = "failed"
  /\ Unwrap(original).host = None
  /\ Unwrap(original).scheme # << >>
  /\ Unwrap(original).username # None
  /\ Unwrap(original).path # None

\* The canonical text of a Uri with a host.
Canonical(u) ==
  u.scheme \o <<":", "/", "/">>
  \o (IF u.username = None THEN << >>
      ELSE Unwrap(u.username) \o Opt(<<":">>, u.password) \o <<"@">>)
  \o Unwrap(u.host)
  \o (IF u.port = None THEN << >> ELSE <<":">> \o u16_to_string(Unwrap(u.port)))
  \o (IF u.path = None THEN <<"/">> ELSE Unwrap(u.path))
  \o Opt(<<"?">>, u.query) \o Opt(<<"#">>, u.fragment)

\* C4: for a Uri with a host the serializer succeeds and the text is
\* scheme "://" [username [":" password] "@"] host [":" port] (path or "/")
\* ["?" query] ["#" fragment], the port as its decimal numeral, the fields
\* verbatim, a password without a username left out.
C4_CanonicalText ==
  (original # None /\ Unwrap(original).host # None /\ pc # "parsed")
    => LET u == Unwrap(original)
       IN  /\ fmtres = "Ok"
           /\ formatter = Canonical(u)
           /\ u.port # None =>
                LET d == u16_to_string(Unwrap(u.port))
                IN  /\ DecimalValue(d) = Unwrap(u.port)
                    /\ Chars(d) \subseteq AsciiDigit
                    /\ Len(d) = 1 \/ d[1] # "0"

C4_Witness ==
  /\ original # None /\ pc # "parsed" /\ fmtres = "Ok"
  /\ Unwrap(original).username = None
  /\ Unwrap(original).password # None
  /\ Unwrap(original).port = Some(U16_MAX)
  /\ Unwrap(original).path = None
  /\ Unwrap(original).query # None

\* C5: every optional string field of a parsed Uri is None or a non-empty
\* string; a group that captured the empty string is stored as None.
C5_NoEmptyField ==
  original # None =>
    \A f \in StringFields :
      /\ Unwrap(original)[f] # Some(<< >>)
      /\ (caps # None /\ Unwrap(caps)[f] = Some(<< >>)) => Unwrap(original)[f] = None

C5_Witness ==
  /\ original # None /\ caps # None
  /\ Unwrap(caps).username = Some(<< >>)
  /\ Unwrap(caps).query = Some(<< >>)
  /\ Unwrap(caps).fragment = Some(<< >>)

\* C6 as claimed: when the pattern matches with the port group d, Uri::new
\* succeeds, and the port is Some(value of d) when the value is at most
\* 65535 and None when it is larger.
C6_PortByValue ==
  (NewDone /\ caps # None /\ Unwrap(caps).port # None)
    => /\ original # None
       /\ LET v == DecimalValue(Unwrap(Unwrap(caps).port))
          IN  Unwrap(original).port = IF v <= 65535 THEN Some(v) ELSE None

\* C6 as amended: the same for a port group of ASCII digits; a port group
\* holding a decimal digit outside ASCII is stored as None.
C6_AsciiPortByValue ==
  (NewDone /\ caps # None /\ Unwrap(caps).port # None)
    => /\ original # None
       /\ LET d == Unwrap(Unwrap(caps).port)
              v == DecimalValue(d)
          IN  Unwrap(original).port =
                IF Chars(d) \subseteq AsciiDigit /\ v <= 65535 THEN Some(v) ELSE None

C6_Witness ==
  /\ original # None /\ caps # None
  /\ Unwrap(caps).port = Some(<<"6", "5", "5", "3", "6">>)
  /\ Unwrap(original).port = None

\* The text before the first ':' of str, when that text is a letter followed
\* by letters, digits, '+', '.' or '-'.
HasSchemeToken(str) ==
  \E c \in 2..Len(str) :
    /\ str[c] = ":"
    /\ \A k \in 1..(c - 1) : str[k] # ":"
    /\ str[1] \in Lower \cup Upper
    /\ \A k \in 2..(c - 1) : str[k] \in Lower \cup Upper \cup AsciiDigit \cup {"+", ".", "-"}

SchemeToken(str) ==
  SubSeq(str, 1, (CHOOSE c \in 1..Len(str) :
                    str[c] = ":" /\ \A k \in 1..(c - 1) : str[k] # ":") - 1)

\* C7: a parsed Uri's scheme is the scheme token the input begins with;
\* an input that does not begin with a scheme token followed by ':' is
\* rejected by is_uri and by Uri::new.
C7_SchemeRequired ==
  (round = 1 /\ pc \in {"parsed", "rejected"}) =>
    /\ original # None =>
         /\ HasSchemeToken(uristr)
         /\ Unwrap(original).scheme = SchemeToken(uristr)
         /\ Unwrap(original).scheme # << >>
    /\ ~HasSchemeToken(uristr) => (isuri = Some(FALSE) /\ original = None)

C7_Witness ==
  /\ pc = "parsed" /\ original # None
  /\ Unwrap(original).scheme = <<"a", "+">>

\* C8: is_uri answers true exactly when Uri::new returns Some.
C8_IsUriAgrees ==
  pc \in {"parsed", "rejected", "reparsed"} => (isuri = Some(TRUE) <=> Current # None)

C8_Witness ==
  /\ round = 1 /\ pc = "parsed" /\ isuri = Some(TRUE)
  /\ Unwrap(original).username # None
  /\ Unwrap(original).password # None

\* The user-info text of a Uri.
UserInfo(u) ==
  Opt(<< >>, u.username) \o Opt(<<":">>, u.password)

\* C9: a parsed username holds neither ':' nor '@', and a username or a
\* password is present only when the input has an '@' between the
\* user-info and the host.
C9_UsernameMinimal ==
  original # None =>
    LET u == Unwrap(original)
    IN  /\ u.username # None => Chars(Unwrap(u.username)) \cap {":", "@"} = {}
        /\ (u.username # None \/ u.password # None) =>
             \E i \in 1..Len(uristr) :
               /\ uristr[i] = "@"
               /\ SubSeq(uristr, i - Len(UserInfo(u)), i - 1) = UserInfo(u)
               /\ SubSeq(uristr, i + 1, i + Len(Unwrap(u.host))) = Unwrap(u.host)

\* C10: every Uri that Uri::new returns has a non-empty host, and
\* serializing it never returns the error.
C10_HostAlways ==
  /\ original # None =>
       /\ Unwrap(original).host # None
       /\ Unwrap(Unwrap(original).host) # << >>
  /\ roundtrip # None =>
       /\ Unwrap(roundtrip).host # None
       /\ Unwrap(Unwrap(roundtrip).host) # << >>
  /\ fmtres # "Err" /\ pc # "failed"

C10_Witness ==
  /\ round = 2 /\ fmtres = "Ok" /\ original # None
  /\ Unwrap(original).path = None

=============================================================================
